---- MODULE Spec2Model ----
(***************************************************************************)
(* Model of the three reporting scripts                                    *)
(*   audience_check_demo.py, order_customer_sync_demo.py,                  *)
(*   error_logging_demo.py                                                 *)
(* Text is modelled as a sequence of tokens: the tokens "|", " " and LF    *)
(* are the single characters the code formats with and splits on, every    *)
(* other token is an opaque run of characters containing none of them.     *)
(***************************************************************************)
EXTENDS Integers, Sequences, FiniteSets, TLC

VARIABLES
    mode,       \* which specification runs: "pipeline", "slack", "breakdown", "hours"
    variant,    \* the script being run
    pfAccount,  \* table pf.account: roster id -> display_name, or Missing
    pc,         \* position of the script
    conn,       \* the name conn: "unbound", "open", "closed"
    cursor,     \* the name cursor: "unbound", "open", "closed"
    scope,      \* account the session is scoped to by set_account (NoScope at start)
    todo,       \* accounts the loop has still to visit
    rec,        \* the values read so far for the account being processed
    qi,         \* index of the next query of the current account
    tbl,        \* the current account's rows in the fact tables
    agg,        \* the records of the accounts whose iteration completed
    log,        \* every statement executed on the session, in order
    result,     \* the text accumulated by the DO block
    table,      \* the rows rendered from result (sequence of sequences of cells)
    sheet,      \* the blocks appended to the spreadsheet
    slack,      \* the calls of send_to_slack: response and outcome
    response,   \* the answer of the chat endpoint to the next or last call
    printed,    \* the diagnostics printed
    exc,        \* the exception being propagated, or NoExc
    failedAt,   \* the account being processed when an exception was raised
    exitCode,   \* exit status of the process, Running before it ends
    channel,    \* breakdown: the channel queried
    rows,       \* breakdown: the status rows of one account
    breakdown,  \* breakdown: the rows the query returned
    elapsed,    \* hours: CURRENT_TIMESTAMP - stored timestamp in seconds, NullInt for NULL
    hours       \* hours: value of hours_since_order

vars == <<mode, variant, pfAccount, pc, conn, cursor, scope, todo, rec, qi, tbl,
          agg, log, result, table, sheet, slack, response, printed, exc, failedAt,
          exitCode, channel, rows, breakdown, elapsed, hours>>

----------------------------------------------------------------------------
(* Bounds *)

RosterSize == 2      \* number of ids of the static roster that are modelled
MaxRows == 3         \* number of status rows of one account and channel
MaxElapsed == 10800  \* largest elapsed time in seconds (three hours)

----------------------------------------------------------------------------
(* Text *)

LF == "<LF>"
SP == " "
BAR == "|"

Whitespace == {SP, LF}

\* str.split(sep): the pieces between the occurrences of sep, always at least one
RECURSIVE SplitFrom(_, _, _)
SplitFrom(s, sep, piece) ==
    IF s = <<>> THEN <<piece>>
    ELSE IF Head(s) = sep THEN <<piece>> \o SplitFrom(Tail(s), sep, <<>>)
    ELSE SplitFrom(Tail(s), sep, Append(piece, Head(s)))

split(s, sep) == SplitFrom(s, sep, <<>>)

RECURSIVE lstrip(_)
lstrip(s) == IF s # <<>> /\ Head(s) \in Whitespace THEN lstrip(Tail(s)) ELSE s

RECURSIVE rstrip(_)
rstrip(s) ==
    IF s # <<>> /\ s[Len(s)] \in Whitespace THEN rstrip(SubSeq(s, 1, Len(s) - 1)) ELSE s

strip(s) == rstrip(lstrip(s))

Contains(s, tok) == \E i \in 1..Len(s) : s[i] = tok

\* integer::TEXT for the small values the model produces
IntText(n) == <<"0", "1", "2", "3", "4", "5", "6", "7", "8", "9">>[n + 1]

NullInt == -1   \* SQL NULL in an integer or timestamp column

----------------------------------------------------------------------------
(* send_to_slack *)

Statuses == {200, 201, 204, 301, 304, 400, 403, 404, 429, 500, 503}

\* requests.Response.ok: raise_for_status raises for 400 <= status < 600
response_ok(status) == ~(400 <= status /\ status < 600)

Bodies == {
    [text |-> "{ok: true}", json |-> "object", okField |-> "true"],
    [text |-> "{ok: false, error: channel_not_found}", json |-> "object", okField |-> "false"],
    [text |-> "{}", json |-> "object", okField |-> "absent"],
    [text |-> "{ok: 'false'}", json |-> "object", okField |-> "string"],
    [text |-> "ok", json |-> "invalid", okField |-> "absent"],
    [text |-> "[]", json |-> "array", okField |-> "absent"] }

Unreachable == [status |-> 0, body |-> [text |-> "", json |-> "none", okField |-> "absent"]]

Responses == [status : Statuses, body : Bodies]

\* truth value of response.json().get('ok')
Truthy(v) == v \in {"true", "string"}

Returned == [raised |-> FALSE, kind |-> "none", message |-> <<>>]

\* lines 38-42 of audience_check_demo.py: the outcome of one call
send_to_slack(resp) ==
    IF resp = Unreachable
    THEN [raised |-> TRUE, kind |-> "ConnectionError",
          message |-> <<"Failed to establish a new connection">>]
    ELSE IF ~response_ok(resp.status)
    THEN [raised |-> TRUE, kind |-> "ValueError",
          message |-> <<"Request to Slack returned an error: ", resp.body.text>>]
    ELSE IF resp.body.json = "invalid"
    THEN [raised |-> TRUE, kind |-> "JSONDecodeError",
          message |-> <<"Expecting value: line 1 column 1 (char 0)">>]
    ELSE IF resp.body.json = "array"
    THEN [raised |-> TRUE, kind |-> "AttributeError",
          message |-> <<"'list' object has no attribute 'get'">>]
    ELSE IF ~Truthy(resp.body.okField)
    THEN [raised |-> TRUE, kind |-> "ValueError",
          message |-> <<"Request to Slack returned an error: ", resp.body.text>>]
    ELSE Returned

----------------------------------------------------------------------------
(* The error breakdown queries *)

Channels == {"Email", "WhatsApp", "SMS"}
Codes == {"131026", "550"}
Messages == {"m1", "m2"}
NullText == "NULL"

\* a status row: errors is NULL (hasErrors = FALSE) or a JSON object with a
\* code and a message
StatusRows ==
    [status : {"failed", "sent"}, hasErrors : {TRUE}, code : Codes, message : Messages]
    \cup [status : {"failed", "sent"}, hasErrors : {FALSE}, code : {NullText}, message : {NullText}]

\* the WHERE clause (account_id and the 24 hour window select the rows of the table)
Selected(ch, t) ==
    {i \in 1..Len(t) : /\ t[i].status = "failed"
                       /\ (ch = "WhatsApp" => t[i].hasErrors)}

\* COUNT(*) OVER (PARTITION BY errors->>'code') GROUP BY code, error:
\* the window counts the groups of the partition, one per distinct (code, error)
sms_count(t, sel, code) ==
    Cardinality({t[i].message : i \in {j \in sel : t[j].code = code}})

\* COUNT(*) OVER (PARTITION BY errors->>'code') with no GROUP BY: counts the rows
window_count(t, sel, code) == Cardinality({i \in sel : t[i].code = code})

error_count(ch, t, sel, code) ==
    IF ch = "SMS" THEN sms_count(t, sel, code) ELSE window_count(t, sel, code)

\* SELECT DISTINCT ON (code) ... ORDER BY code, RANDOM(): every result the query
\* can return; pick is the row RANDOM() puts first for each code
QueryResults(ch, t) ==
    LET sel == Selected(ch, t)
        keys == {t[i].code : i \in sel}
        picks == {p \in [keys -> sel] : \A k \in keys : t[p[k]].code = k}
    IN  {{[code |-> k, message |-> t[p[k]].message,
           count |-> error_count(ch, t, sel, k)] : k \in keys} : p \in picks}

RECURSIVE SeqsUpTo(_, _)
SeqsUpTo(S, n) ==
    IF n = 0 THEN {<<>>}
    ELSE LET shorter == SeqsUpTo(S, n - 1)
         IN  shorter \cup {Append(s, x) : s \in {q \in shorter : Len(q) = n - 1}, x \in S}

----------------------------------------------------------------------------
(* Hours since a stored timestamp *)

\* numeric -> integer rounds to nearest, ties away from zero (EXTRACT returns
\* numeric since PostgreSQL 14)
round_numeric(secs) == (secs + 1800) \div 3600

\* double precision -> integer rounds to nearest, ties to even (EXTRACT returns
\* double precision before PostgreSQL 14)
round_double(secs) ==
    LET q == secs \div 3600
        r == secs % 3600
    IN  IF r < 1800 THEN q
        ELSE IF r > 1800 THEN q + 1
        ELSE IF q % 2 = 0 THEN q ELSE q + 1

truncate_hours(secs) == secs \div 3600

\* the assignment truncating instead of rounding
hours_since_truncated(secs) ==
    IF secs = NullInt THEN {NullInt} ELSE {truncate_hours(secs)}

\* hours_since_order := EXTRACT(EPOCH FROM (CURRENT_TIMESTAMP - t)) / 3600,
\* assigned to an INTEGER variable: the values the assignment can store
hours_since(secs) ==
    IF secs = NullInt THEN {NullInt}
    ELSE {round_numeric(secs), round_double(secs)}

----------------------------------------------------------------------------
(* The roster and the account table *)

all_account_ids == <<"221218718049371529", "318376149853931305", "189857344031557017",
                     "308857572440410099", "196436990147692145", "353789014706227026",
                     "328385381068178508">>

account_ids == SubSeq(all_account_ids, 1, RosterSize)

Ids == {account_ids[i] : i \in 1..Len(account_ids)}

NoAcct == "<none>"
NoScope == "<unscoped>"

Names == {<<"Acme">>, <<"A", BAR, "B">>, <<"A", LF, "B">>}

AccountRows == [present : {TRUE}, name : Names] \cup {[present |-> FALSE, name |-> <<>>]}

RECURSIVE Perms(_)
Perms(S) ==
    IF S = {} THEN {<<>>}
    ELSE UNION {{<<x>> \o p : p \in Perms(S \ {x})} : x \in S}

\* SELECT id, display_name FROM pf.account WHERE id IN (...): no ORDER BY, so
\* the rows come back in any order
roster_select(acc) == Perms({a \in Ids : acc[a].present})

----------------------------------------------------------------------------
(* Per-account queries *)

Variants == {"audience", "order", "error_logging"}
DoVariants == {"audience", "order"}

QueriesOf(v) ==
    CASE v = "audience" -> <<"total", "updated_today", "not_updated_today">>
      [] v = "order" -> <<"latest_order", "latest_customer">>
      [] v = "error_logging" -> <<"display_name", "Email", "WhatsApp", "SMS">>

EmptyTbl == [updated |-> 0, notUpdated |-> 0, orderAge |-> NullInt, customerAge |-> NullInt,
             Email |-> <<>>, WhatsApp |-> <<>>, SMS |-> <<>>]

FailedRow(c, m) == [status |-> "failed", hasErrors |-> TRUE, code |-> c, message |-> m]

\* the contents of one account's fact tables that the pipeline is run on
Tables(v) ==
    CASE v = "audience" ->
            {[EmptyTbl EXCEPT !.updated = u, !.notUpdated = n] : u \in {0, 2}, n \in {0, 3}}
      [] v = "order" ->
            {[EmptyTbl EXCEPT !.orderAge = o, !.customerAge = c] :
                o \in {NullInt, 6300}, c \in {NullInt, 1800}}
      [] v = "error_logging" ->
            {EmptyTbl,
             [EmptyTbl EXCEPT !.Email = <<FailedRow("550", "m1")>>],
             [EmptyTbl EXCEPT !.SMS = <<FailedRow("550", "m1"), FailedRow("550", "m1")>>]}

NoErrors == [Email |-> {}, WhatsApp |-> {}, SMS |-> {}]

EmptyRec == [id |-> NoAcct, name |-> <<>>, total |-> 0, updated |-> 0, notUpdated |-> 0,
             latest |-> NullInt, orderAge |-> NullInt, customerAge |-> NullInt,
             errors |-> NoErrors]

\* fetch_display_name and the line after it
fetch_display_name(acc, id) == IF acc[id].present THEN acc[id].name ELSE <<"N/A">>

\* the records the query of this kind can leave in rec
query(kind, r, t, acc) ==
    CASE kind = "total" -> {[r EXCEPT !.total = t.updated + t.notUpdated]}
      [] kind = "updated_today" -> {[r EXCEPT !.updated = t.updated]}
      [] kind = "not_updated_today" ->
            {[r EXCEPT !.notUpdated = t.notUpdated,
                       !.latest = IF t.notUpdated = 0 THEN NullInt ELSE 1]}
      [] kind = "latest_order" -> {[r EXCEPT !.orderAge = t.orderAge]}
      [] kind = "latest_customer" -> {[r EXCEPT !.customerAge = t.customerAge]}
      [] kind = "display_name" -> {[r EXCEPT !.name = fetch_display_name(acc, r.id)]}
      [] kind = "Email" -> {[r EXCEPT !.errors.Email = e] : e \in QueryResults("Email", t.Email)}
      [] kind = "WhatsApp" ->
            {[r EXCEPT !.errors.WhatsApp = e] : e \in QueryResults("WhatsApp", t.WhatsApp)}
      [] kind = "SMS" -> {[r EXCEPT !.errors.SMS = e] : e \in QueryResults("SMS", t.SMS)}

\* a scoping call that leaves the session's scope as it was
set_account_noop(old, id) == old

\* PERFORM set_account(id): the scope of the session afterwards
set_account(old, id) == id

----------------------------------------------------------------------------
(* Formatting the result text and rendering the table *)

Sep == <<SP, BAR, SP>>

\* COALESCE(latest_not_updated::TEXT, 'N/A')
TimestampText(t) == IF t = NullInt THEN <<"N/A">> ELSE <<"2024-01-01", SP, "00:00:00">>

\* COALESCE(hours_since_order::TEXT, 'N/A')
HoursText(h) == IF h = NullInt THEN <<"N/A">> ELSE <<IntText(h)>>

\* audience_check_demo.py, format(...) of the DO block
format_audience(r) ==
    r.name \o Sep \o <<r.id>> \o Sep \o <<IntText(r.total)>> \o Sep
    \o <<IntText(r.updated)>> \o Sep
    \o <<IntText(r.notUpdated), SP, "(">> \o TimestampText(r.latest) \o <<")", LF>>

\* order_customer_sync_demo.py, format(...) of the DO block, for the hours given
format_order(r, ho, hc) ==
    r.name \o Sep \o <<r.id>> \o Sep
    \o HoursText(ho) \o <<SP, "hours", SP, "ago">> \o Sep
    \o HoursText(hc) \o <<SP, "hours", SP, "ago", LF>>

\* the lines the DO block can append for the record
format_line(v, r) ==
    IF v = "audience" THEN {format_audience(r)}
    ELSE {format_order(r, ho, hc) : ho \in hours_since(r.orderAge),
                                    hc \in hours_since(r.customerAge)}

Columns(v) == IF v = "audience" THEN 5 ELSE 4

NoTable == <<<<<<"<not rendered>">>>>>>

\* for line in result.split('\n'): if line.strip(): a, b, ... = line.split('|')
\* the rows of stripped cells, or ok = FALSE when the unpacking raises ValueError
RECURSIVE render_lines(_, _, _)
render_lines(v, lines, done) ==
    IF lines = <<>> THEN [ok |-> TRUE, rows |-> done]
    ELSE IF strip(Head(lines)) = <<>> THEN render_lines(v, Tail(lines), done)
    ELSE LET parts == split(Head(lines), BAR)
         IN  IF Len(parts) # Columns(v) THEN [ok |-> FALSE, rows |-> done]
             ELSE render_lines(v, Tail(lines),
                               Append(done, [i \in 1..Len(parts) |-> strip(parts[i])]))

render(v, text) == render_lines(v, split(text, LF), <<>>)

\* insert_into_sheet: the rows of one channel
channel_rows(errs) ==
    IF errs = {} THEN {<<"No errors found.">>}
    ELSE {<<e.code, e.message, IntText(e.count)>> : e \in errs}

\* insert_into_sheet: the batch appended for one account (the rows of a channel
\* are kept as a set; their order by code is not modelled)
insert_into_sheet(r) ==
    [header |-> <<"Account ID: ", r.id, "Display Name: ">> \o r.name,
     Email |-> channel_rows(r.errors.Email),
     WhatsApp |-> channel_rows(r.errors.WhatsApp),
     SMS |-> channel_rows(r.errors.SMS)]

----------------------------------------------------------------------------
(* The run of one script *)

NoExc == "<no exception>"
Running == "running"
ExitOk == "0"
ExitError == "1"
NoResponse == [status |-> -1, body |-> [text |-> "", json |-> "none", okField |-> "absent"]]

\* the answers the pipeline is run against
SampleResponses ==
    {[status |-> 200, body |-> b] : b \in {x \in Bodies : x.text \in {"{ok: true}", "ok",
                                             "{ok: false, error: channel_not_found}"}}}
    \cup {[status |-> 500, body |-> b] : b \in {x \in Bodies : x.text = "{}"}}
    \cup {Unreachable}

pureVars == <<channel, rows, breakdown, elapsed, hours>>
cfgVars == <<mode, variant, pfAccount>>

Event(op, kind, accts) == [op |-> op, kind |-> kind, accts |-> accts, scope |-> scope]

LoopPcs == {"loop", "query", "emit"}

\* where an exception raised at position p continues: every script has one
\* try/except around the whole run and none inside the account loop
handler_isolating(v, p) == IF p \in LoopPcs THEN "loop" ELSE "except"

handler(v, p) == "except"

\* an exception e is raised at the current position while acct is processed;
\* leaving "with conn.cursor() as cursor" closes the cursor
Raise(e, acct) ==
    /\ exc' = e
    /\ failedAt' = IF acct = NoAcct THEN failedAt ELSE acct
    /\ pc' = handler(variant, pc)
    /\ cursor' = IF variant \in DoVariants /\ cursor = "open" THEN "closed" ELSE cursor

Init ==
    /\ mode = "pipeline"
    /\ variant \in Variants
    /\ pfAccount \in [Ids -> AccountRows]
    /\ pc = "connect"
    /\ conn = "unbound"
    /\ cursor = "unbound"
    /\ scope = NoScope
    /\ todo = <<>>
    /\ rec = EmptyRec
    /\ qi = 1
    /\ tbl = EmptyTbl
    /\ agg = <<>>
    /\ log = <<>>
    /\ result = <<>>
    /\ table = NoTable
    /\ sheet = <<>>
    /\ slack = <<>>
    /\ response = NoResponse
    /\ printed = <<>>
    /\ exc = NoExc
    /\ failedAt = NoAcct
    /\ exitCode = Running
    /\ channel = "Email"
    /\ rows = <<>>
    /\ breakdown = {}
    /\ elapsed = NullInt
    /\ hours = NullInt

\* psycopg2.connect / connect_db
Connect ==
    /\ mode = "pipeline" /\ pc = "connect"
    /\ \/ /\ conn' = "open"
          /\ pc' = "cursor"
          /\ UNCHANGED <<printed, exitCode, exc, failedAt, cursor>>
       \/ /\ variant \in DoVariants      \* except: print(...); exit(1)
          /\ printed' = Append(printed, "Error connecting to the database")
          /\ exitCode' = ExitError
          /\ pc' = "done"
          /\ UNCHANGED <<conn, exc, failedAt, cursor>>
       \/ /\ variant = "error_logging"   \* raised inside the try of main
          /\ Raise("OperationalError", NoAcct)
          /\ UNCHANGED <<conn, printed, exitCode>>
    /\ UNCHANGED <<cfgVars, pureVars, scope, todo, rec, qi, tbl, agg, log, result,
                   table, sheet, slack, response>>

\* conn.cursor(), and in the DO variants CREATE TEMP TABLE temp_results
OpenCursor ==
    /\ mode = "pipeline" /\ pc = "cursor"
    /\ \/ /\ cursor' = "open"
          /\ variant = "error_logging"
          /\ todo' = account_ids
          /\ pc' = "loop"
          /\ UNCHANGED <<exc, failedAt, log>>
       \/ /\ cursor' = "open"
          /\ variant \in DoVariants
          /\ log' = Append(log, Event("execute", "create_temp", {}))
          /\ pc' = "roster"
          /\ UNCHANGED <<exc, failedAt, todo>>
       \/ /\ Raise("OperationalError", NoAcct)   \* conn.cursor() raises
          /\ UNCHANGED <<todo, log>>
       \/ /\ variant \in DoVariants              \* CREATE TEMP TABLE raises
          /\ exc' = "ProgrammingError"
          /\ pc' = handler(variant, pc)
          /\ cursor' = "closed"
          /\ UNCHANGED <<failedAt, todo, log>>
    /\ UNCHANGED <<cfgVars, pureVars, conn, scope, rec, qi, tbl, agg, result, table,
                   sheet, slack, response, printed, exitCode>>

\* the FOR ... IN SELECT of the DO block opens: the roster rows are read
RosterSelect ==
    /\ mode = "pipeline" /\ pc = "roster"
    /\ \/ /\ \E order \in roster_select(pfAccount) : todo' = order
          /\ log' = Append(log, Event("query", "roster", Ids))
          /\ pc' = "loop"
          /\ UNCHANGED <<exc, failedAt, cursor>>
       \/ /\ Raise("ProgrammingError", NoAcct)
          /\ UNCHANGED <<todo, log>>
    /\ UNCHANGED <<cfgVars, pureVars, conn, scope, rec, qi, tbl, agg, result, table,
                   sheet, slack, response, printed, exitCode>>

\* top of the loop body: set_account for the next account
SetAccount ==
    /\ mode = "pipeline" /\ pc = "loop" /\ todo # <<>>
    /\ LET a == Head(todo) IN
       \/ /\ scope' = set_account(scope, a)
          /\ log' = Append(log, Event("set_account", "set_account", {a}))
          /\ rec' = [EmptyRec EXCEPT !.id = a,
                         !.name = IF variant \in DoVariants THEN pfAccount[a].name ELSE <<>>]
          /\ \E t \in Tables(variant) : tbl' = t
          /\ qi' = 1
          /\ todo' = Tail(todo)
          /\ pc' = "query"
          /\ UNCHANGED <<exc, failedAt, cursor>>
       \/ /\ Raise("set_account failed", a)
          /\ todo' = Tail(todo)
          /\ UNCHANGED <<scope, log, rec, tbl, qi>>
    /\ UNCHANGED <<cfgVars, pureVars, conn, agg, result, table, sheet, slack, response,
                   printed, exitCode>>

\* the next query of the current account
RunQuery ==
    /\ mode = "pipeline" /\ pc = "query"
    /\ LET kind == QueriesOf(variant)[qi] IN
       \/ /\ \E r \in query(kind, rec, tbl, pfAccount) : rec' = r
          /\ log' = Append(log, Event("query", kind, {rec.id}))
          /\ qi' = qi + 1
          /\ pc' = IF qi = Len(QueriesOf(variant)) THEN "emit" ELSE "query"
          /\ UNCHANGED <<exc, failedAt, cursor>>
       \/ /\ Raise("query failed", rec.id)
          /\ UNCHANGED <<rec, log, qi>>
    /\ UNCHANGED <<cfgVars, pureVars, conn, scope, todo, tbl, agg, result, table, sheet,
                   slack, response, printed, exitCode>>

\* DO variants: result := result || format(...)
FormatRow ==
    /\ mode = "pipeline" /\ pc = "emit" /\ variant \in DoVariants
    /\ \E line \in format_line(variant, rec) : result' = result \o line
    /\ agg' = Append(agg, rec)
    /\ pc' = "loop"
    /\ UNCHANGED <<cfgVars, pureVars, conn, cursor, scope, todo, rec, qi, tbl, log, table,
                   sheet, slack, response, printed, exc, failedAt, exitCode>>

\* error_logging: insert_into_sheet(account_id, display_name, errors)
InsertIntoSheet ==
    /\ mode = "pipeline" /\ pc = "emit" /\ variant = "error_logging"
    /\ \/ /\ sheet' = Append(sheet, insert_into_sheet(rec))
          /\ agg' = Append(agg, rec)
          /\ pc' = "loop"
          /\ UNCHANGED <<exc, failedAt, cursor>>
       \/ /\ Raise("APIError", rec.id)
          /\ UNCHANGED <<sheet, agg>>
    /\ UNCHANGED <<cfgVars, pureVars, conn, scope, todo, rec, qi, tbl, log, result, table,
                   slack, response, printed, exitCode>>

\* the loop is exhausted; the DO block inserts result into temp_results
EndLoop ==
    /\ mode = "pipeline" /\ pc = "loop" /\ todo = <<>>
    /\ \/ /\ variant = "error_logging"
          /\ pc' = "slack"
          /\ UNCHANGED <<log, exc, failedAt, cursor>>
       \/ /\ variant \in DoVariants
          /\ log' = Append(log, Event("execute", "insert_result", {}))
          /\ pc' = "fetch"
          /\ UNCHANGED <<exc, failedAt, cursor>>
       \/ /\ variant \in DoVariants
          /\ Raise("ProgrammingError", NoAcct)
          /\ UNCHANGED log
    /\ UNCHANGED <<cfgVars, pureVars, conn, scope, todo, rec, qi, tbl, agg, result, table,
                   sheet, slack, response, printed, exitCode>>

\* SELECT result FROM temp_results, the table is built from it, the with
\* blocks are left
FetchAndRender ==
    /\ mode = "pipeline" /\ pc = "fetch"
    /\ \/ /\ render(variant, result).ok
          /\ log' = Append(log, Event("execute", "select_result", {}))
          /\ table' = render(variant, result).rows
          /\ cursor' = "closed"
          /\ pc' = "slack"
          /\ UNCHANGED <<exc, failedAt>>
       \/ /\ ~render(variant, result).ok
          /\ log' = Append(log, Event("execute", "select_result", {}))
          /\ Raise("ValueError: values to unpack", NoAcct)
          /\ UNCHANGED table
       \/ /\ Raise("ProgrammingError", NoAcct)
          /\ UNCHANGED <<log, table>>
    /\ UNCHANGED <<cfgVars, pureVars, conn, scope, todo, rec, qi, tbl, agg, result, sheet,
                   slack, response, printed, exitCode>>

\* send_to_slack(message)
SendToSlack ==
    /\ mode = "pipeline" /\ pc = "slack"
    /\ \E r \in SampleResponses :
        /\ response' = r
        /\ slack' = Append(slack, [response |-> r, outcome |-> send_to_slack(r)])
        /\ IF send_to_slack(r).raised
           THEN Raise(send_to_slack(r).kind, NoAcct)
           ELSE /\ pc' = "finally"
                /\ UNCHANGED <<exc, failedAt, cursor>>
    /\ UNCHANGED <<cfgVars, pureVars, conn, scope, todo, rec, qi, tbl, agg, log, result,
                   table, sheet, printed, exitCode>>

\* except Exception as e: print(...)
Except ==
    /\ mode = "pipeline" /\ pc = "except"
    /\ printed' = Append(printed, exc)
    /\ pc' = "finally"
    /\ UNCHANGED <<cfgVars, pureVars, conn, cursor, scope, todo, rec, qi, tbl, agg, log,
                   result, table, sheet, slack, response, exc, failedAt, exitCode>>

UnboundLocal == "UnboundLocalError: cursor"

\* finally: the names are closed and the process ends.  In main of
\* error_logging_demo.py "if cursor:" reads a local that is unbound when
\* connect_db() or conn.cursor() raised.
Finally ==
    /\ mode = "pipeline" /\ pc = "finally"
    /\ IF variant = "error_logging" /\ cursor = "unbound"
       THEN /\ exc' = UnboundLocal
            /\ exitCode' = ExitError
            /\ UNCHANGED <<conn, cursor>>
       ELSE /\ cursor' = IF variant = "error_logging" THEN "closed" ELSE cursor
            /\ conn' = IF conn = "unbound" THEN conn ELSE "closed"
            /\ exitCode' = ExitOk
            /\ UNCHANGED exc
    /\ pc' = "done"
    /\ UNCHANGED <<cfgVars, pureVars, scope, todo, rec, qi, tbl, agg, log, result, table,
                   sheet, slack, response, printed, failedAt>>

Next ==
    \/ Connect
    \/ OpenCursor
    \/ RosterSelect
    \/ SetAccount
    \/ RunQuery
    \/ FormatRow
    \/ InsertIntoSheet
    \/ EndLoop
    \/ FetchAndRender
    \/ SendToSlack
    \/ Except
    \/ Finally

Spec == Init /\ [][Next]_vars

----------------------------------------------------------------------------
(* send_to_slack on its own *)

IdleInit ==
    /\ variant = "audience"
    /\ pfAccount = [a \in Ids |-> [present |-> FALSE, name |-> <<>>]]
    /\ conn = "unbound" /\ cursor = "unbound" /\ scope = NoScope
    /\ todo = <<>> /\ rec = EmptyRec /\ qi = 1 /\ tbl = EmptyTbl
    /\ agg = <<>> /\ log = <<>> /\ result = <<>> /\ table = NoTable
    /\ sheet = <<>> /\ slack = <<>> /\ printed = <<>>
    /\ exc = NoExc /\ failedAt = NoAcct /\ exitCode = Running

InitSlack ==
    /\ mode = "slack"
    /\ IdleInit
    /\ pc = "slack"
    /\ response \in Responses \cup {Unreachable}
    /\ channel = "Email" /\ rows = <<>> /\ breakdown = {}
    /\ elapsed = NullInt /\ hours = NullInt

CallSlack ==
    /\ mode = "slack" /\ pc = "slack"
    /\ slack' = Append(slack, [response |-> response, outcome |-> send_to_slack(response)])
    /\ pc' = "done"
    /\ UNCHANGED <<cfgVars, pureVars, conn, cursor, scope, todo, rec, qi, tbl, agg, log,
                   result, table, sheet, response, printed, exc, failedAt, exitCode>>

NextSlack == CallSlack

SpecSlack == InitSlack /\ [][NextSlack]_vars

----------------------------------------------------------------------------
(* One breakdown query on its own *)

InitBreakdown ==
    /\ mode = "breakdown"
    /\ IdleInit
    /\ pc = "query"
    /\ response = NoResponse
    /\ channel \in Channels
    /\ rows \in SeqsUpTo(StatusRows, MaxRows)
    /\ breakdown = {}
    /\ elapsed = NullInt /\ hours = NullInt

\* cursor.execute(email_query / whatsapp_query / sms_query); cursor.fetchall()
FetchErrors ==
    /\ mode = "breakdown" /\ pc = "query"
    /\ breakdown' \in QueryResults(channel, rows)
    /\ pc' = "done"
    /\ UNCHANGED <<cfgVars, conn, cursor, scope, todo, rec, qi, tbl, agg, log, result,
                   table, sheet, slack, response, printed, exc, failedAt, exitCode,
                   channel, rows, elapsed, hours>>

NextBreakdown == FetchErrors

SpecBreakdown == InitBreakdown /\ [][NextBreakdown]_vars

----------------------------------------------------------------------------
(* The hours computation on its own *)

InitHours ==
    /\ mode = "hours"
    /\ IdleInit
    /\ pc = "compute"
    /\ response = NoResponse
    /\ channel = "Email" /\ rows = <<>> /\ breakdown = {}
    /\ elapsed \in {NullInt} \cup 0..MaxElapsed
    /\ hours = NullInt

\* hours_since_order := EXTRACT(EPOCH FROM (...)) / 3600
ComputeHours ==
    /\ mode = "hours" /\ pc = "compute"
    /\ hours' \in hours_since(elapsed)
    /\ pc' = "done"
    /\ UNCHANGED <<cfgVars, conn, cursor, scope, todo, rec, qi, tbl, agg, log, result,
                   table, sheet, slack, response, printed, exc, failedAt, exitCode,
                   channel, rows, breakdown, elapsed>>

NextHours == ComputeHours

SpecHours == InitHours /\ [][NextHours]_vars

----------------------------------------------------------------------------
(* Properties *)

SetEvents(a) == {i \in 1..Len(log) : log[i].op = "set_account" /\ a \in log[i].accts}
QueriesFor(a) == {i \in 1..Len(log) : log[i].op = "query" /\ a \in log[i].accts}
CleanRun == pc = "done" /\ exitCode = ExitOk /\ printed = <<>>

\* C1 as stated: in every run of every variant each roster account is scoped
\* exactly once, the scoping call precedes every query made for the account,
\* the display-name lookup included, and no query for an account runs while
\* another account is the active scope.
C1_AsStated ==
    mode = "pipeline" =>
        \A a \in Ids :
            /\ Cardinality(SetEvents(a)) <= 1
            /\ CleanRun => Cardinality(SetEvents(a)) = 1
            /\ \A i \in QueriesFor(a) :
                /\ \E j \in SetEvents(a) : j < i
                /\ log[i].scope \in {a, NoScope}

\* C1 amended: set_account is issued at most once per roster account and
\* exactly once for every account that is aggregated; it precedes every
\* per-account query of that account, which runs with that account as the
\* active scope; the roster SELECT of the DO block variants, which reads the
\* display names, runs unscoped before the first set_account; a clean run of
\* error_logging scopes every roster account.
C1_ScopedOncePerProcessedAccount ==
    mode = "pipeline" =>
        /\ \A a \in Ids : Cardinality(SetEvents(a)) <= 1
        /\ \A k \in 1..Len(agg) : Cardinality(SetEvents(agg[k].id)) = 1
        /\ \A i \in 1..Len(log) :
            /\ (log[i].op = "query" /\ log[i].kind # "roster") =>
                  \A a \in log[i].accts :
                      /\ log[i].scope = a
                      /\ \E j \in SetEvents(a) : j < i
            /\ log[i].kind = "roster" =>
                  /\ log[i].scope = NoScope
                  /\ \A j \in 1..i : log[j].op # "set_account"
        /\ (variant = "error_logging" /\ CleanRun) =>
              \A a \in Ids : Cardinality(SetEvents(a)) = 1

C1_Witness ==
    /\ mode = "pipeline" /\ variant = "audience" /\ CleanRun
    /\ Len(agg) = RosterSize
    /\ \E i \in 1..Len(log) : log[i].kind = "roster"

Is2xx(status) == 200 <= status /\ status < 300

\* C2 as stated: send_to_slack returns normally only for a 2xx response whose
\* JSON body has ok == true; for every other response it raises an error
\* whose message contains the raw body text.
C2_AsStated ==
    \A i \in 1..Len(slack) :
        LET r == slack[i].response
            o == slack[i].outcome
            success == /\ Is2xx(r.status)
                       /\ r.body.json = "object"
                       /\ r.body.okField = "true"
        IN  r # Unreachable =>
                /\ ~o.raised => success
                /\ ~success => (o.raised /\ Contains(o.message, r.body.text))

\* C3 as stated: on every exit path a connection that was opened is closed
\* before the process ends, and teardown raises no new error.
C3_AsStated ==
    (mode = "pipeline" /\ pc = "done") => (conn # "open" /\ exc # UnboundLocal)

FailedWith(c) == {i \in 1..Len(rows) : rows[i].status = "failed" /\ rows[i].hasErrors
                                       /\ rows[i].code = c}

\* C4 as stated: for every channel the breakdown has exactly one row per
\* error code carried by a failed row, and its count is the number of failed
\* rows carrying that code.
C4_AsStated ==
    (mode = "breakdown" /\ pc = "done") =>
        \A c \in Codes :
            FailedWith(c) # {} =>
                /\ Cardinality({b \in breakdown : b.code = c}) = 1
                /\ \A b \in breakdown : b.code = c => b.count = Cardinality(FailedWith(c))

RenderAttempted == \E i \in 1..Len(log) : log[i].kind = "select_result"

Digits == {"0", "1", "2", "3", "4", "5", "6", "7", "8", "9"}

\* the cell of a NULL timestamp: N/A, and no timestamp or number of hours
ShowsNA(cell, v) ==
    /\ Contains(cell, "N/A")
    /\ ~Contains(cell, "2024-01-01")
    /\ v = "order" => \A i \in 1..Len(cell) : cell[i] \notin Digits

\* C5 as stated: for every aggregated account whose timestamp is NULL the
\* rendered row shows N/A in that cell and rendering does not fail; a count
\* of zero rows renders 0.
C5_AsStated ==
    (mode = "pipeline" /\ variant \in DoVariants /\ RenderAttempted) =>
        \A k \in 1..Len(agg) :
            LET r == agg[k] IN
            /\ (variant = "audience" /\ r.latest = NullInt) =>
                  (table # NoTable /\ ShowsNA(table[k][5], variant))
            /\ (variant = "order" /\ r.orderAge = NullInt) =>
                  (table # NoTable /\ ShowsNA(table[k][3], variant))
            /\ (variant = "order" /\ r.customerAge = NullInt) =>
                  (table # NoTable /\ ShowsNA(table[k][4], variant))
            /\ (variant = "audience" /\ r.total = 0) =>
                  (table # NoTable /\ table[k][3] = <<"0">>)

RosterPos(a) == CHOOSE i \in 1..Len(account_ids) : account_ids[i] = a

\* the account ids of the delivered rows or blocks, in the order delivered
ReportIds ==
    IF variant \in DoVariants
    THEN [k \in 1..Len(table) |-> table[k][2][1]]
    ELSE [k \in 1..Len(sheet) |-> sheet[k].header[2]]

\* C6 as stated: the rows or blocks of the delivered report are in the order
\* of the static roster list, one per aggregated account.
C6_AsStated ==
    (mode = "pipeline" /\ (variant = "error_logging" \/ table # NoTable)) =>
        /\ Len(ReportIds) = Len(agg)
        /\ \A i, j \in 1..Len(ReportIds) :
              i < j => RosterPos(ReportIds[i]) < RosterPos(ReportIds[j])

SinkErrors == {"APIError", "ValueError", "JSONDecodeError", "AttributeError", "ConnectionError"}

\* C7 as stated: when a sink call fails the failure is printed, the run ends
\* with a non-zero outcome and the call is not attempted again.
C7_AsStated ==
    (mode = "pipeline" /\ pc = "done" /\ \E i \in 1..Len(printed) : printed[i] \in SinkErrors) =>
        /\ exitCode # ExitOk
        /\ Len(slack) <= 1

\* C8 as stated: the reported hours are the elapsed seconds divided by 3600,
\* truncated toward zero.
C8_AsStated ==
    (mode = "hours" /\ pc = "done" /\ elapsed # NullInt) => hours = elapsed \div 3600

\* C8 amended: the reported hours are the elapsed seconds divided by 3600 and
\* rounded to the nearest whole hour (an exact half hour goes to either
\* neighbour), so that 1 h 45 min reports 2.
C8_RoundedToNearestHour ==
    (mode = "hours" /\ pc = "done" /\ elapsed # NullInt) =>
        /\ hours * 3600 - elapsed \in -1800..1800
        /\ elapsed = 6300 => hours = 2

C8_Witness == mode = "hours" /\ pc = "done" /\ elapsed = 6300 /\ hours = 2

\* C9 as stated: whatever the display names, the renderer emits one
\* well-formed row per account with each value in its own column and the run
\* goes on to delivery.
C9_AsStated ==
    (mode = "pipeline" /\ variant \in DoVariants /\ RenderAttempted) =>
        /\ table # NoTable
        /\ Len(table) = Len(agg)
        /\ \A k \in 1..Len(table) : table[k][2] = <<agg[k].id>>

AggregatedIds == {agg[k].id : k \in 1..Len(agg)}

\* C10 as stated, for the variant whose loop is Python code inside a try
\* (error_logging): after a failure while one account is processed every
\* later roster account is still aggregated and the notification is produced.
C10_AsStated ==
    (mode = "pipeline" /\ variant = "error_logging" /\ pc = "done" /\ failedAt # NoAcct) =>
        /\ \A a \in Ids : RosterPos(a) > RosterPos(failedAt) => a \in AggregatedIds
        /\ slack # <<>>

\* C10 amended: in none of the three variants is a failure isolated to its
\* account: the exception leaves the loop for the one outer except, no later
\* roster account is scoped or queried, no table is rendered and no chat
\* notification is sent.
C10_FailureAbortsLoop ==
    (mode = "pipeline" /\ failedAt # NoAcct) =>
        /\ pc \in {"except", "finally", "done"}
        /\ slack = <<>>
        /\ table = NoTable
        /\ failedAt \notin AggregatedIds
        /\ \A i \in 1..Len(todo) : SetEvents(todo[i]) = {} /\ todo[i] \notin AggregatedIds

C10_Witness ==
    /\ mode = "pipeline" /\ variant = "error_logging" /\ pc = "done"
    /\ failedAt # NoAcct /\ todo # <<>>

====
